---- MODULE Spec2Model ----
(***************************************************************************)
(* Model of Lesson-1_Phugoid.ipynb: radius_of_curvature, rotate and the    *)
(* marching loop of plot_flight_path, over IEEE-754 binary64 values.       *)
(*                                                                         *)
(* Every number of the notebook is a numpy.float64 (numpy.zeros makes      *)
(* float64 arrays, numpy.radians / numpy.cos / numpy.sin return float64    *)
(* and a Python float combined with a float64 gives a float64), and        *)
(* numpy.seterr(all='ignore') makes every invalid operation, overflow and  *)
(* division by zero return NaN or an infinity instead of raising.  The     *)
(* model therefore carries binary64 values exactly: a value is a record    *)
(*   [k |-> "nan" | "inf" | "fin", s |-> 0 | 1, m |-> magnitude, e |-> n]  *)
(* standing for (-1)^s * m * 2^e, with m a natural number of at most 53    *)
(* bits held as a little-endian sequence of 15-bit limbs.                  *)
(***************************************************************************)
EXTENDS Integers, Sequences, FiniteSets, Bags, TLC

\* ------------------------------------------------------------------------
\* Natural numbers of arbitrary size: little-endian limb sequences, no
\* leading (high) zero limb, <<>> is 0.  Sums are taken column by column
\* and carries are looked ahead, so that no definition recurses over limbs.
\* ------------------------------------------------------------------------
Base == 2^15

\* number of bits of 0 <= n < 2^31
BitLenSmall(n) == Cardinality({j \in 0..30 : 2^j <= n})

LimbBits == BitLenSmall(Base) - 1

Max(i, j) == IF i >= j THEN i ELSE j
Min(i, j) == IF i <= j THEN i ELSE j

\* F applied to the value of val, which is computed first and once
Bind(val, F(_)) == CHOOSE r \in { F(a) : a \in {val} } : TRUE

\* the function f on 1..n as the sequence of its values
Tuple(f) == f \o <<>>

\* T(lo) + .. + T(hi) for naturals T(i): the size of the bag that holds
\* T(i) + 1 copies of each i, less one for each i
SumOver(lo, hi, T(_)) ==
  BagCardinality([i \in lo..hi |-> T(i) + 1]) - Max(hi - lo + 1, 0)

Norm(a) ==
  IF a = <<>> THEN <<>>
  ELSE IF a[Len(a)] # 0 THEN a
  ELSE LET nz == {k \in 1..Len(a) : a[k] # 0}
       IN  IF nz = {} THEN <<>>
           ELSE SubSeq(a, 1, CHOOSE k \in nz : \A j \in nz : j <= k)

Limb(a, i) == IF i <= Len(a) THEN a[i] ELSE 0

RECURSIVE FromNat(_)
FromNat(n) == IF n = 0 THEN <<>> ELSE <<n % Base>> \o FromNat(n \div Base)

\* whether a carry enters column k of the columns s, each at most
\* 2 * Base - 2: some column below overflows and every column between
\* passes the carry on
CarryInto(s, k) ==
  \E j \in 1..(k - 1) :
    s[j] >= Base /\ \A l \in (j + 1)..(k - 1) : s[l] = Base - 1

\* the number whose columns are s, each at most 2 * Base - 2
Ripple(s) ==
  IF s = <<>> THEN <<>>
  ELSE Norm(Tuple([k \in 1..(Len(s) + 1) |->
                    (Limb(s, k) + (IF CarryInto(s, k) THEN 1 ELSE 0)) % Base]))

\* the columns c, each below 2^30, with the high part of each column moved
\* one column up
Settle(c) ==
  IF c = <<>> THEN <<>>
  ELSE Ripple(Tuple([k \in 1..(Len(c) + 1) |->
                      (Limb(c, k) % Base) + (IF k = 1 THEN 0 ELSE c[k - 1] \div Base)]))

BAdd(a, b) ==
  IF a = <<>> THEN b
  ELSE IF b = <<>> THEN a
  ELSE Ripple(Tuple([k \in 1..Max(Len(a), Len(b)) |-> Limb(a, k) + Limb(b, k)]))

\* whether limb k of a - b borrows from above, for a >= b
BorrowInto(a, b, k) ==
  \E j \in 1..(k - 1) :
    a[j] < Limb(b, j) /\ \A l \in (j + 1)..(k - 1) : a[l] = Limb(b, l)

\* a - b for a >= b
BSub(a, b) ==
  IF a = <<>> THEN <<>>
  ELSE IF b = <<>> THEN a
  ELSE Norm(Tuple([k \in 1..Len(a) |->
                    (Base + a[k] - Limb(b, k)
                       - (IF BorrowInto(a, b, k) THEN 1 ELSE 0)) % Base]))

\* -1, 0, 1 as a < b, a = b, a > b
BCmp(a, b) ==
  IF Len(a) < Len(b) THEN -1
  ELSE IF Len(a) > Len(b) THEN 1
  ELSE LET d == {k \in 1..Len(a) : a[k] # b[k]}
       IN  IF d = {} THEN 0
           ELSE LET k == CHOOSE k \in d : \A j \in d : j <= k
                IN  IF a[k] < b[k] THEN -1 ELSE 1

\* column k of a * b: the low halves of the limb products a[i] * b[k-i+1]
\* and the high halves of the limb products a[i] * b[k-i]
Column(a, b, k) ==
  SumOver(Max(1, k - Len(b) + 1), Min(Len(a), k),
          LAMBDA i : (a[i] * b[k - i + 1]) % Base)
  + SumOver(Max(1, k - Len(b)), Min(Len(a), k - 1),
            LAMBDA i : (a[i] * b[k - i]) \div Base)

BMul(a, b) ==
  IF a = <<>> \/ b = <<>> THEN <<>>
  ELSE Settle(Tuple([k \in 1..(Len(a) + Len(b)) |-> Column(a, b, k)]))

Zeros(n) == [k \in 1..n |-> 0]

\* a * 2^k
BShl(a, k) ==
  IF a = <<>> THEN <<>>
  ELSE Norm(Zeros(k \div LimbBits) \o
            [j \in 1..(Len(a) + 1) |->
               ((Limb(a, j) * 2^(k % LimbBits)) % Base)
               + (IF j = 1 THEN 0 ELSE a[j - 1] \div 2^(LimbBits - (k % LimbBits)))])

\* floor(a / 2^k)
BShr(a, k) ==
  IF k \div LimbBits >= Len(a) THEN <<>>
  ELSE Norm(Tuple([j \in 1..(Len(a) - k \div LimbBits) |->
                    (a[j + k \div LimbBits] \div 2^(k % LimbBits))
                    + ((Limb(a, j + 1 + k \div LimbBits) % 2^(k % LimbBits))
                         * 2^(LimbBits - (k % LimbBits)))]))

\* a mod 2^k
BLow(a, k) ==
  LET q == k \div LimbBits
      r == k % LimbBits
  IN  IF q >= Len(a) THEN a
      ELSE Norm(SubSeq(a, 1, q) \o (IF r = 0 THEN <<>> ELSE <<a[q + 1] % 2^r>>))

BitLen(a) == IF a = <<>> THEN 0 ELSE LimbBits * (Len(a) - 1) + BitLenSmall(a[Len(a)])

BIsOdd(a) == a # <<>> /\ a[1] % 2 = 1

\* bit i (bit 0 is the lowest) of a
BBit(a, i) == (Limb(a, i \div LimbBits + 1) \div 2^(i % LimbBits)) % 2

\* Loops that carry a state are run by halving the number of steps left;
\* the state holds what tells that the loop is over.
\*
\* Division by 0 < d <= Base, from the top limb down:
\* st = <<quotient limbs so far, remainder, index of the next limb>>
DivSmallOne(st, a, d) ==
  << <<(st[2] * Base + a[st[3]]) \div d>> \o st[1],
     (st[2] * Base + a[st[3]]) % d,
     st[3] - 1 >>

RECURSIVE DivSmallSteps(_, _, _, _)
DivSmallSteps(st, a, d, n) ==
  IF st[3] = 0 THEN st
  ELSE IF n = 1 THEN DivSmallOne(st, a, d)
  ELSE DivSmallSteps(DivSmallSteps(st, a, d, n \div 2), a, d, n - n \div 2)

\* floor(a / d) for 0 < d <= Base
BDivSmall(a, d) ==
  IF a = <<>> THEN <<>>
  ELSE Norm(DivSmallSteps(<<<<>>, 0, Len(a)>>, a, d, Len(a))[1])

\* One step of binary long division by d:
\* st = <<quotient, remainder, bits left>>; q2, r2 are both doubled.
DivPick(q2, r2, d, left) ==
  IF BCmp(r2, d) >= 0 THEN <<BAdd(q2, <<1>>), BSub(r2, d), left>>
  ELSE <<q2, r2, left>>

DivOne(st, d) == DivPick(BAdd(st[1], st[1]), BAdd(st[2], st[2]), d, st[3] - 1)

\* k steps at most: from <<q, r, n>> with r < d to
\* <<q * 2^n + floor(r * 2^n / d), (r * 2^n) mod d, 0>>
RECURSIVE DivBits(_, _, _)
DivBits(st, d, k) ==
  IF st[3] = 0 THEN st
  ELSE IF k = 1 THEN DivOne(st, d)
  ELSE DivBits(DivBits(st, d, k \div 2), d, k - k \div 2)

\* One step of the digit-by-digit square root of v:
\* st = <<root, remainder, index of the next bit pair>>.
SqrtPick(rem4, cand, root2, p) ==
  IF BCmp(rem4, cand) >= 0 THEN <<BAdd(root2, <<1>>), BSub(rem4, cand), p>>
  ELSE <<root2, rem4, p>>

SqrtOne(st, v) ==
  SqrtPick(BAdd(BShl(st[2], 2),
                FromNat(2 * BBit(v, 2 * st[3] + 1) + BBit(v, 2 * st[3]))),
           BAdd(BShl(st[1], 2), <<1>>),
           BShl(st[1], 1),
           st[3] - 1)

RECURSIVE SqrtBits(_, _, _)
SqrtBits(st, v, k) ==
  IF st[3] < 0 THEN st
  ELSE IF k = 1 THEN SqrtOne(st, v)
  ELSE SqrtBits(SqrtBits(st, v, k \div 2), v, k - k \div 2)

\* <<floor(sqrt(v)), v - floor(sqrt(v))^2, -1>> for v > 0
BSqrt(v) ==
  SqrtBits(<<<<>>, <<>>, (BitLen(v) + 1) \div 2 - 1>>, v, (BitLen(v) + 1) \div 2)

\* ------------------------------------------------------------------------
\* numpy.float64: IEEE-754 binary64, round to nearest, ties to even.
\* A finite value is (-1)^s * m * 2^e with m < 2^Precision and
\* EMin <= e <= EMax; m >= 2^(Precision-1) unless e = EMin (subnormal).
\* ------------------------------------------------------------------------
Precision == 53
EMin == -1074
EMax == 971

NaN == [k |-> "nan", s |-> 0, m |-> <<>>, e |-> 0]
Inf(s) == [k |-> "inf", s |-> s, m |-> <<>>, e |-> 0]
Zero(s) == [k |-> "fin", s |-> s, m |-> <<>>, e |-> 0]
Fin(s, m, e) == [k |-> "fin", s |-> s, m |-> m, e |-> e]

IsNaN(a) == a.k = "nan"
IsInf(a) == a.k = "inf"
IsFinite(a) == a.k = "fin"
IsZero(a) == a.k = "fin" /\ a.m = <<>>
Xor(s, t) == (s + t) % 2

Pack(s, m, e) ==
  IF e > EMax THEN Inf(s) ELSE IF m = <<>> THEN Zero(s) ELSE Fin(s, m, e)

\* q1 may have grown to Precision + 1 bits by rounding up
Renorm(s, q1, e1) ==
  IF BitLen(q1) > Precision THEN Pack(s, BShr(q1, 1), e1 + 1) ELSE Pack(s, q1, e1)

\* q is M cut at the exponent e1, c compares the part cut off with one half
RoundCut(s, q, c, e1, sticky) ==
  IF c > 0 \/ (c = 0 /\ (sticky \/ BIsOdd(q)))
    THEN Renorm(s, BAdd(q, <<1>>), e1)
    ELSE Renorm(s, q, e1)

\* e1 is the exponent of the result unless rounding carries
RoundAt(s, M, E, sticky, e1) ==
  IF e1 - E > BitLen(M) + 1 THEN Zero(s)
  ELSE IF e1 <= E
    THEN (IF e1 > EMax THEN Inf(s) ELSE Fin(s, BShl(M, E - e1), e1))
  ELSE RoundCut(s, BShr(M, e1 - E),
                BCmp(BLow(M, e1 - E), BShl(<<1>>, e1 - E - 1)), e1, sticky)

\* The binary64 nearest to (-1)^s * (M + t) * 2^E, where 0 <= t < 1 and
\* sticky says whether t > 0 (then M carries at least Precision + 2 bits).
Round(s, M, E, sticky) ==
  IF M = <<>> THEN Zero(s)
  ELSE RoundAt(s, M, E, sticky, Max(E + BitLen(M) - Precision, EMin))

\* (-1)^sign(n) * |n| * 2^e as a float64 (exact when |n| < 2^53)
Dyadic(n, e) ==
  Round(IF n < 0 THEN 1 ELSE 0, FromNat(IF n < 0 THEN 0 - n ELSE n), e, FALSE)

\* A Python int or float literal of the notebook with an integer value.
FromInt(n) == Dyadic(n, 0)

FNeg(a) == IF IsNaN(a) THEN NaN ELSE [a EXCEPT !.s = 1 - a.s]

\* position of the highest set bit of a finite nonzero value
Top(a) == a.e + BitLen(a.m)

\* the sum of two finite nonzero values of opposite signs whose mantissas
\* ma, mb are aligned at the exponent e0; c compares ma with mb
AddSigned(a, b, ma, mb, c, e0) ==
  IF c = 0 THEN Zero(0)
  ELSE Round(IF c > 0 THEN a.s ELSE b.s,
             IF c > 0 THEN BSub(ma, mb) ELSE BSub(mb, ma), e0, FALSE)

AddAligned(a, b, ma, mb, e0) ==
  IF a.s = b.s THEN Round(a.s, BAdd(ma, mb), e0, FALSE)
  ELSE AddSigned(a, b, ma, mb, BCmp(ma, mb), e0)

\* gap is the distance of the top bits: the smaller operand is lost when
\* it lies wholly below the rounding position of the larger one
AddGap(a, b, gap) ==
  IF gap > Precision + 8 THEN a
  ELSE IF 0 - gap > Precision + 8 THEN b
  ELSE AddAligned(a, b, BShl(a.m, a.e - Min(a.e, b.e)),
                  BShl(b.m, b.e - Min(a.e, b.e)), Min(a.e, b.e))

\* either operand is NaN or an infinity
AddSpecial(a, b) ==
  IF IsNaN(a) \/ IsNaN(b) THEN NaN
  ELSE IF IsInf(a) THEN (IF IsInf(b) /\ b.s # a.s THEN NaN ELSE a)
  ELSE b

FAdd(a, b) ==
  IF ~(IsFinite(a) /\ IsFinite(b)) THEN AddSpecial(a, b)
  ELSE IF IsZero(a)
    THEN (IF IsZero(b) THEN Zero(IF a.s = 1 /\ b.s = 1 THEN 1 ELSE 0) ELSE b)
  ELSE IF IsZero(b) THEN a
  ELSE AddGap(a, b, Top(a) - Top(b))

FSub(a, b) == FAdd(a, FNeg(b))

FMul(a, b) ==
  IF IsNaN(a) \/ IsNaN(b) THEN NaN
  ELSE IF IsInf(a) \/ IsInf(b)
    THEN (IF IsZero(a) \/ IsZero(b) THEN NaN ELSE Inf(Xor(a.s, b.s)))
  ELSE IF IsZero(a) \/ IsZero(b) THEN Zero(Xor(a.s, b.s))
  ELSE Round(Xor(a.s, b.s), BMul(a.m, b.m), a.e + b.e, FALSE)

\* Guard bits of a quotient or root beyond Precision.
Guard == 3

\* the quotient of the mantissas A >= B / 2 > 0 of equal bit length, to
\* Precision + Guard bits with remainder
DivAligned(A, B) ==
  DivBits(IF BCmp(A, B) >= 0 THEN <<<<1>>, BSub(A, B), Precision + Guard>>
                             ELSE <<<<>>, A, Precision + Guard>>,
          B, Precision + Guard)

\* d is the difference of the bit lengths of the mantissas
DivFinite(a, b, d) ==
  Bind(DivAligned(BShl(a.m, Max(0 - d, 0)), BShl(b.m, Max(d, 0))), LAMBDA qr :
    Round(Xor(a.s, b.s), qr[1], a.e - b.e + d - (Precision + Guard),
          qr[2] # <<>>))

FDiv(a, b) ==
  IF IsNaN(a) \/ IsNaN(b) THEN NaN
  ELSE IF IsInf(a) THEN (IF IsInf(b) THEN NaN ELSE Inf(Xor(a.s, b.s)))
  ELSE IF IsInf(b) THEN Zero(Xor(a.s, b.s))
  ELSE IF IsZero(b) THEN (IF IsZero(a) THEN NaN ELSE Inf(Xor(a.s, b.s)))
  ELSE IF IsZero(a) THEN Zero(Xor(a.s, b.s))
  ELSE DivFinite(a, b, BitLen(a.m) - BitLen(b.m))

\* sqrt(M0 * 2^E0) for M0 # 0 and an even E0, correctly rounded: M0 is
\* first brought to 2 * (Precision + Guard) bits or a little more, up bit
\* pairs up or dn bit pairs down
RootShifted(M0, E0, up, dn) ==
  Bind(BSqrt(IF up > 0 THEN BShl(M0, 2 * up) ELSE BShr(M0, 2 * dn)), LAMBDA rr :
    Round(0, rr[1], (E0 - 2 * up + 2 * dn) \div 2,
          rr[2] # <<>> \/ (dn > 0 /\ BLow(M0, 2 * dn) # <<>>)))

RootEven(M0, E0) ==
  RootShifted(M0, E0,
    IF BitLen(M0) < 2 * (Precision + Guard)
      THEN (2 * (Precision + Guard) - BitLen(M0) + 1) \div 2 ELSE 0,
    IF BitLen(M0) > 2 * (Precision + Guard) + 2
      THEN (BitLen(M0) - 2 * (Precision + Guard)) \div 2 ELSE 0)

\* sqrt(M * 2^E) for M # 0, correctly rounded
RootRound(M, E) ==
  IF E % 2 = 0 THEN RootEven(M, E) ELSE RootEven(BAdd(M, M), E - 1)

\* x ** 0.5 and x ** 1.5 of a float64 x (C pow): NaN for a negative base,
\* +0 for either zero, +inf for either infinity.
Pow05(a) ==
  IF IsNaN(a) THEN NaN
  ELSE IF IsInf(a) THEN Inf(0)
  ELSE IF IsZero(a) THEN Zero(0)
  ELSE IF a.s = 1 THEN NaN
  ELSE RootRound(a.m, a.e)

Pow15(a) ==
  IF IsNaN(a) THEN NaN
  ELSE IF IsInf(a) THEN Inf(0)
  ELSE IF IsZero(a) THEN Zero(0)
  ELSE IF a.s = 1 THEN NaN
  ELSE RootRound(BMul(a.m, BMul(a.m, a.m)), 3 * a.e)

\* numeric comparisons (== and < of float64: false on NaN, -0 == +0)
MagLess(a, b) ==
  IF IsZero(a) THEN ~IsZero(b)
  ELSE IF IsZero(b) THEN FALSE
  ELSE IF Top(a) # Top(b) THEN Top(a) < Top(b)
  ELSE BCmp(BShl(a.m, a.e - Min(a.e, b.e)), BShl(b.m, b.e - Min(a.e, b.e))) < 0

FEq(a, b) ==
  /\ ~IsNaN(a) /\ ~IsNaN(b)
  /\ \/ a = b
     \/ IsZero(a) /\ IsZero(b)

FLess(a, b) ==
  /\ ~IsNaN(a) /\ ~IsNaN(b) /\ ~FEq(a, b)
  /\ IF IsInf(a) THEN a.s = 1
     ELSE IF IsInf(b) THEN b.s = 0
     ELSE IF a.s # b.s THEN a.s = 1
     ELSE IF a.s = 0 THEN MagLess(a, b) ELSE MagLess(b, a)

FAbs(a) == IF IsNaN(a) THEN NaN ELSE [a EXCEPT !.s = 0]

\* ------------------------------------------------------------------------
\* numpy.cos and numpy.sin: the correctly rounded cosine and sine.
\* The argument is reduced with 2/pi held to 1230 fractional bits, the
\* series is summed in fixed point with FxBits fractional bits.
\* ------------------------------------------------------------------------
\* floor(2/pi * 2^1230)
TwoOverPi == <<31795, 13781, 31867, 24717, 22540, 26690, 30933, 30243, 32471, 30005, 21138, 28436, 7399, 23016, 24343, 32124, 28337, 14995, 27181, 15551, 32154, 31281, 7028, 31073, 13257, 6975, 8045, 5338, 11624, 30860, 32498, 13057, 30593, 19455, 8184, 20598, 30692, 31837, 18501, 16019, 21710, 7361, 4566, 627, 32249, 13730, 18178, 7475, 20769, 5981, 13813, 20740, 7419, 2381, 12747, 17341, 1855, 26825, 27145, 4701, 25, 28311, 9252, 3527, 28105, 25264, 24251, 18263, 31045, 527, 17465, 13095, 22693, 24685, 13533, 9194, 7519, 20449, 16722, 18888, 24795, 20860>>
\* floor(pi/2 * 2^165)
PiHalf == <<546, 295, 20777, 14393, 11779, 13076, 19532, 6214, 2138, 27985, 18703, 1>>

FxLimbs == Len(PiHalf) - 1
FxBits == LimbBits * FxLimbs
FxOne == Zeros(FxLimbs) \o <<1>>

\* product of two fixed-point numbers
DropLimbs(p, n) == SubSeq(p, n + 1, Len(p))
FxMul(a, b) == DropLimbs(BMul(a, b), FxLimbs)

\* One term of the series of r^n / n!, summed by n mod 4:
\* st = <<term n - 1, <<1 + r^4/4! + .., r + r^5/5! + .., r^2/2! + ..,
\* r^3/3! + ..>>, n>>; t1 is the term n.
TaylorAdd(st, t1) ==
  << t1,
     [st[2] EXCEPT ![(st[3] % 4) + 1] = BAdd(st[2][(st[3] % 4) + 1], t1)],
     st[3] + 1 >>

TaylorOne(st, r) == TaylorAdd(st, BDivSmall(FxMul(st[1], r), st[3]))

\* k terms at most: the series ends when a term is zero
RECURSIVE Taylor(_, _, _)
Taylor(st, r, k) ==
  IF st[1] = <<>> THEN st
  ELSE IF k = 1 THEN TaylorOne(st, r)
  ELSE Taylor(Taylor(st, r, k \div 2), r, k - k \div 2)

\* r^n / n! < 2^-FxBits for r < pi/2 from n = TaylorTerms on
TaylorTerms == 50

CosSinOf(acc) == <<BSub(acc[1], acc[3]), BSub(acc[2], acc[4])>>

\* <<cos r, sin r>> in fixed point for 0 <= r < pi/2 in fixed point
CosSin(r) ==
  IF r = <<>> THEN <<FxOne, <<>>>>
  ELSE Bind(Taylor(<<FxOne, <<FxOne, <<>>, <<>>, <<>>>>, 1>>, r, TaylorTerms)[2],
            CosSinOf)

\* Y = a.m * (limbs lo + 1 .. of TwoOverPi), with S fractional bits
ReduceFrom(Y, S) ==
  << BBit(Y, S) + 2 * BBit(Y, S + 1),
     CosSin(FxMul(BShr(BLow(Y, S), S - FxBits), PiHalf)) >>

\* the limbs of TwoOverPi from lo + 1 on decide the quadrant and the
\* fraction of a.m * 2^a.e * 2/pi, where TwoOverPi counts S0 fractional bits
\* against a.m
ReduceWindow(a, S0, lo) ==
  ReduceFrom(BMul(a.m, SubSeq(TwoOverPi, lo + 1,
                              Min((S0 + 2) \div LimbBits + 1, Len(TwoOverPi)))),
             S0 - LimbBits * lo)

ReduceAt(a, S0) ==
  ReduceWindow(a, S0, Max((S0 - FxBits - Precision) \div LimbBits - 2, 0))

\* For a finite x with |x| >= 2^-27: <<quadrant, <<cos r, sin r>>>> where
\* |x| = quadrant * pi/2 + r (mod 2 pi), 0 <= r < pi/2, in fixed point.
Reduce(a) == ReduceAt(a, LimbBits * Len(TwoOverPi) - a.e)

\* below 2^TinyTop in magnitude, cos x rounds to 1 and sin x rounds to x
TinyTop == 0 - (Precision + 1) \div 2

CosRound(q) ==
  Round(IF q[1] \in {1, 2} THEN 1 ELSE 0,
        IF q[1] \in {0, 2} THEN q[2][1] ELSE q[2][2], -FxBits, TRUE)

FCos(a) ==
  IF ~IsFinite(a) THEN NaN
  ELSE IF IsZero(a) \/ Top(a) <= TinyTop THEN FromInt(1)
  ELSE Bind(Reduce(a), CosRound)

SinRound(s, q) ==
  Round(IF q[1] \in {0, 1} THEN s ELSE 1 - s,
        IF q[1] \in {0, 2} THEN q[2][2] ELSE q[2][1], -FxBits, TRUE)

FSin(a) ==
  IF ~IsFinite(a) THEN NaN
  ELSE IF IsZero(a) \/ Top(a) <= TinyTop THEN a
  ELSE Bind(Reduce(a), LAMBDA q : SinRound(a.s, q))

\* numpy.pi = 0x1.921fb54442d18p+1
PI == Fin(0, <<11544, 10376, 2029, 201>>, -51)

\* numpy.radians(x) = x * (pi / 180)
Radians(a) == FMul(a, FDiv(PI, FromInt(180)))


\* ------------------------------------------------------------------------
\* Floating-point error handling: numpy.seterr(all='ignore').
\* An operation signals when it is invalid (NaN from operands that are not
\* NaN), divides a finite nonzero number by zero or overflows (an infinity
\* from finite operands).  A computed value travels with the flag
\* "something signalled on the way": [v |-> float64, sig |-> BOOLEAN].
\* ------------------------------------------------------------------------
seterr_raise == "raise"
seterr == "ignore"

Signals(args, r) ==
  \/ IsNaN(r) /\ \A a \in args : ~IsNaN(a)
  \/ IsInf(r) /\ \A a \in args : IsFinite(a)

Const(v) == [v |-> v, sig |-> FALSE]

\* An operation on flagged values: the operands are evaluated first, then
\* the operation, then the flag.
Flag1(p, r) == [v |-> r, sig |-> p.sig \/ Signals({p.v}, r)]
Flag2(p, q, r) == [v |-> r, sig |-> p.sig \/ q.sig \/ Signals({p.v, q.v}, r)]

Lift1(Op(_), p) == CHOOSE f \in { Flag1(pp, Op(pp.v)) : pp \in {p} } : TRUE

Lift2(Op(_, _), p, q) ==
  CHOOSE f \in { Flag2(pp, qq, Op(pp.v, qq.v)) : pp \in {p}, qq \in {q} } : TRUE

add(p, q) == Lift2(FAdd, p, q)
sub(p, q) == Lift2(FSub, p, q)
mul(p, q) == Lift2(FMul, p, q)
\* a division that yields 0 instead of dividing by zero
div_guarded(p, q) == IF IsZero(q.v) THEN Const(Zero(0)) ELSE Lift2(FDiv, p, q)
div(p, q) == Lift2(FDiv, p, q)
neg(p) == Lift1(FNeg, p)
cos_as_sin(p) == Lift1(FSin, p)
cos(p) == Lift1(FCos, p)
sin(p) == Lift1(FSin, p)
pow05(p) == Lift1(Pow05, p)
pow15(p) == Lift1(Pow15, p)
radians(p) == Lift1(Radians, p)

\* FloatingPointError is raised only under seterr(all='raise')
RaisesOnSignal(sig) == sig
Raises(sig) == seterr = "raise" /\ sig

\* ------------------------------------------------------------------------
\* The notebook's functions
\* ------------------------------------------------------------------------
\* the Python floats 1 / 3, 2 and numpy.pi / 2.0
Third == Const(FDiv(FromInt(1), FromInt(3)))
Two == Const(FromInt(2))
HalfPi == Const(FDiv(PI, FromInt(2)))
\* ds = 1.0
ds == Const(FromInt(1))

\* return zt / (1 / 3 - C / 2 * (zt / z)**1.5)
radius_of_curvature(z, zt, C) ==
  div(zt, sub(Third, mul(div(C, Two), pow15(div(zt, z)))))

\* rotate, on one point: coords and center are pairs
\* x_new = xc + (x - xc) * numpy.cos(angle) + (z - zc) * numpy.sin(angle)
\* z_new = zc - (x - xc) * numpy.sin(angle) + (z - zc) * numpy.cos(angle)
\* d = <<x - xc, z - zc, numpy.cos(angle), numpy.sin(angle)>>
Rotated_sign_slip(xc, zc, d) ==
  << add(add(xc, mul(d[1], d[3])), mul(d[2], d[4])),
     add(add(zc, mul(d[1], d[4])), mul(d[2], d[3])) >>

Rotated(xc, zc, d) ==
  << add(add(xc, mul(d[1], d[3])), mul(d[2], d[4])),
     add(sub(zc, mul(d[1], d[4])), mul(d[2], d[3])) >>

\* if mode == 'degrees': angle = numpy.radians(angle)
rotate(coords, center, angle, mode) ==
  Bind(IF mode = "degrees" THEN radians(angle) ELSE angle, LAMBDA ang :
    Bind(<<sub(coords[1], center[1]), sub(coords[2], center[2]), cos(ang), sin(ang)>>,
         LAMBDA d : Rotated(center[1], center[2], d)))

\* numpy's element-wise arithmetic of a 1D array with a scalar or an array
ArrSubScalarFirst(v, c) == [k \in DOMAIN v |-> sub(v[0], c)]
ArrSubScalar(v, c) == [k \in DOMAIN v |-> sub(v[k], c)]
ArrMulScalar(v, c) == [k \in DOMAIN v |-> mul(v[k], c)]
ScalarAddArr(c, v) == [k \in DOMAIN v |-> add(c, v[k])]
ScalarSubArr(c, v) == [k \in DOMAIN v |-> sub(c, v[k])]
ArrAddArr(v, w) == [k \in DOMAIN v |-> add(v[k], w[k])]

\* rotate, on a batch: coords is a pair of equal-length 1D arrays
\* d = <<xs - xc, zs - zc, numpy.cos(angle), numpy.sin(angle)>>
RotatedArrays(xc, zc, d) ==
  << ArrAddArr(ScalarAddArr(xc, ArrMulScalar(d[1], d[3])), ArrMulScalar(d[2], d[4])),
     ArrAddArr(ScalarSubArr(zc, ArrMulScalar(d[1], d[4])), ArrMulScalar(d[2], d[3])) >>

rotate_arrays(coords, center, angle, mode) ==
  Bind(IF mode = "degrees" THEN radians(angle) ELSE angle, LAMBDA ang :
    Bind(<<ArrSubScalar(coords[1], center[1]), ArrSubScalar(coords[2], center[2]),
           cos(ang), sin(ang)>>,
         LAMBDA d : RotatedArrays(center[1], center[2], d)))

\* C = (numpy.cos(theta) - 1 / 3 * z[0] / zt) * (z[0] / zt)**0.5
IntegrationConstantPlus(z0v, ztv, th) ==
  mul(add(cos(th), div(mul(Third, z0v), ztv)), pow05(div(z0v, ztv)))

IntegrationConstant(z0v, ztv, th) ==
  mul(sub(cos(th), div(mul(Third, z0v), ztv)), pow05(div(z0v, ztv)))

\* the index the loop body assigns: x[i], z[i] = rotate(...)
WriteIndexPrev(j) == j - 1
WriteIndex(j) == j

\* the values of a pair of flagged values, and whether either signalled
Values(p) == <<p[1].v, p[2].v>>

\* ------------------------------------------------------------------------
\* plot_flight_path(zt, z0, theta0, N) as a state machine
\* ------------------------------------------------------------------------
VARIABLES
  pc,      \* "idle" | "call" | "loop" | "done" | "raised"
  err,     \* the exception that ended the call, or "none"
  N, zt, z0, theta0,   \* the arguments (theta0 in degrees)
  x, z,    \* the coordinate arrays, indexed from 0
  theta,   \* the heading, in radians
  C,       \* the constant of integration
  i,       \* the loop index
  nC,      \* how many times C has been assigned
  log,     \* per completed loop pass: what it called and computed
  rpc,     \* position of the rotate calls: "idle" | "call" | ... | "done"
  rin,     \* arguments of the rotate calls
  rb, re, r2, rs   \* their results

tvars == <<pc, err, N, zt, z0, theta0, x, z, theta, C, i, nC, log>>
rvars == <<rpc, rin, rb, re, r2, rs>>
vars == <<pc, err, N, zt, z0, theta0, x, z, theta, C, i, nC, log, rpc, rin, rb, re, r2, rs>>

Unset == [k |-> "unset", s |-> 0, m |-> <<>>, e |-> 0]

\* largest N explored
MaxN == 3

\* 1e308
Huge == Fin(0, <<18592, 3031, 13262, 142>>, 971)

ZtValues == {FromInt(1), FromInt(64), FromInt(0), Huge}
Z0Values == {FromInt(1), FromInt(16), Dyadic(1, -1), FromInt(0), FromInt(-1), Huge}
Theta0Values == {FromInt(0), FromInt(90)}
NValues == (0 - 1)..MaxN

\* numpy.zeros(n), n >= 0
zeros_short(n) == [j \in 0..(n - 2) |-> Zero(0)]
zeros(n) == [j \in 0..(n - 1) |-> Zero(0)]

RotateIdle ==
  /\ rpc = "idle" /\ rin = <<>> /\ rb = <<>> /\ re = <<>> /\ r2 = <<>> /\ rs = <<>>

TracerIdle ==
  /\ pc = "idle" /\ err = "none" /\ N = 0 /\ zt = Unset /\ z0 = Unset
  /\ theta0 = Unset /\ x = <<>> /\ z = <<>> /\ theta = Unset /\ C = Unset
  /\ i = 0 /\ nC = 0 /\ log = <<>>

Init ==
  /\ pc = "call" /\ err = "none"
  /\ N \in NValues /\ zt \in ZtValues /\ z0 \in Z0Values /\ theta0 \in Theta0Values
  /\ x = <<>> /\ z = <<>> /\ theta = Unset /\ C = Unset /\ i = 0 /\ nC = 0
  /\ log = <<>>
  /\ RotateIdle

Raise(e) ==
  /\ pc' = "raised" /\ err' = e
  /\ UNCHANGED <<N, zt, z0, theta0, x, z, theta, C, i, nC, log>>

\* Lines 128-136: convert the angle, allocate, set point 0, compute C.
\* numpy.zeros raises ValueError for a negative N; x[0] = 0.0 raises
\* IndexError on an empty array.
Initialize ==
  /\ pc = "call"
  /\ \E th \in {radians(Const(theta0))} :
       IF Raises(th.sig) THEN Raise("FloatingPointError")
       ELSE IF N < 0 THEN Raise("ValueError")
       ELSE IF N = 0 THEN Raise("IndexError")
       ELSE \E c \in {IntegrationConstant(Const(z0), Const(zt), Const(th.v))} :
              IF Raises(c.sig) THEN Raise("FloatingPointError")
              ELSE /\ pc' = "loop"
                   /\ x' = [zeros(N) EXCEPT ![0] = Zero(0)]
                   /\ z' = [zeros(N) EXCEPT ![0] = z0]
                   /\ theta' = th.v
                   /\ C' = c.v /\ nC' = nC + 1
                   /\ i' = 1
                   /\ UNCHANGED <<err, N, zt, z0, theta0, log>>
  /\ UNCHANGED rvars

\* Lines 138-151, one pass for i in range(1, N): everything but C.
March ==
  /\ pc = "loop" /\ i <= N - 1
  /\ \E prev \in {<<Const(x[i - 1]), Const(z[i - 1])>>} :
     \E t \in {add(Const(theta), HalfPi)} :
     \E normal \in {<<cos(t), neg(sin(t))>>} :
     \E R \in {radius_of_curvature(prev[2], Const(zt), Const(C))} :
     \E center \in {<<add(prev[1], mul(R, normal[1])), add(prev[2], mul(R, normal[2]))>>} :
     \E dtheta \in {div(ds, R)} :
     \E p \in {rotate(prev, center, dtheta, "radians")} :
     \E th1 \in {add(Const(theta), dtheta)} :
       IF Raises(p[1].sig \/ p[2].sig \/ th1.sig)
         THEN /\ pc' = "raised" /\ err' = "FloatingPointError"
              /\ UNCHANGED <<x, z, theta, i, log>>
         ELSE /\ x' = [x EXCEPT ![WriteIndex(i)] = p[1].v]
              /\ z' = [z EXCEPT ![WriteIndex(i)] = p[2].v]
              /\ theta' = th1.v
              /\ i' = i + 1
              /\ log' = Append(log,
                   [i |-> i,
                    curv |-> [z |-> prev[2].v, zt |-> zt, C |-> C],
                    R |-> R.v,
                    rot |-> [coords |-> Values(prev), center |-> Values(center),
                             angle |-> dtheta.v],
                    heading |-> theta])
              /\ UNCHANGED <<pc, err>>
  /\ UNCHANGED <<N, zt, z0, theta0>>
  /\ UNCHANGED rvars

StepRecomputesC ==
  /\ March
  /\ C' = IntegrationConstant(Const(z[i - 1]), Const(zt), Const(theta)).v
  /\ nC' = nC + 1

\* The loop body assigns x[i], z[i] and theta, never C.
Step ==
  /\ March
  /\ UNCHANGED <<C, nC>>

\* range(1, N) is exhausted: the path is complete (what follows only plots).
Finish ==
  /\ pc = "loop" /\ i > N - 1
  /\ pc' = "done"
  /\ UNCHANGED <<err, N, zt, z0, theta0, x, z, theta, C, i, nC, log>>
  /\ UNCHANGED rvars

Next == Initialize \/ Step \/ Finish

Spec == Init /\ [][Next]_vars

\* ------------------------------------------------------------------------
\* rotate called on its own: on a batch of points by the angle a; on each
\* point of the batch by a, on each result by b, and on each point by a + b.
\* ------------------------------------------------------------------------
\* 0.1, 2.5 and 2^54
Tenth == Fin(0, <<6554, 13107, 26214, 204>>, -56)
TwoAndHalf == Dyadic(5, -1)
Far == Dyadic(1, 54)

Centers == { <<FromInt(0), FromInt(0)>>, <<FromInt(1), FromInt(2)>>, <<Far, FromInt(0)>> }
AnglePairs == { <<FromInt(0), FromInt(45)>>, <<FromInt(30), FromInt(60)>>,
                <<Dyadic(-3, -1), Dyadic(1, -2)>> }
Modes == {"degrees", "radians"}

\* a 1D array of the given elements, indexed from 0
array(elems) == [k \in 0..(Len(elems) - 1) |-> elems[k + 1]]

\* the batches <<xs, zs>>: three points, one point, no point
Batches ==
  { <<array(<<FromInt(1), Tenth, Inf(0)>>), array(<<FromInt(0), TwoAndHalf, FromInt(1)>>)>>,
    <<array(<<FromInt(3)>>), array(<<FromInt(-4)>>)>>,
    <<array(<<>>), array(<<>>)>> }

Jobs ==
  { [coords |-> p, center |-> c, a |-> ab[1], b |-> ab[2], mode |-> m] :
    p \in Batches, c \in Centers, ab \in AnglePairs, m \in Modes }

\* a pair of float64 as the arguments of rotate
Args(p) == <<Const(p[1]), Const(p[2])>>

\* point k of the batch
Point(k) == <<rin.coords[1][k], rin.coords[2][k]>>

InitRotate ==
  /\ TracerIdle
  /\ rpc = "call"
  /\ rin \in Jobs
  /\ rb = <<>> /\ re = <<>> /\ r2 = <<>> /\ rs = <<>>

\* rb = rotate((xs, zs), center, a, mode)
RotateBatch ==
  /\ rpc = "call"
  /\ \E out \in { rotate_arrays(<<[k \in DOMAIN rin.coords[1] |-> Const(rin.coords[1][k])],
                                  [k \in DOMAIN rin.coords[2] |-> Const(rin.coords[2][k])]>>,
                                Args(rin.center), Const(rin.a), rin.mode) } :
       rb' = <<[k \in DOMAIN out[1] |-> out[1][k].v], [k \in DOMAIN out[2] |-> out[2][k].v]>>
  /\ rpc' = "batch"
  /\ UNCHANGED <<rin, re, r2, rs>>
  /\ UNCHANGED tvars

\* re[k] = rotate((xs[k], zs[k]), center, a, mode)
RotateEach ==
  /\ rpc = "batch"
  /\ re' = [k \in DOMAIN rin.coords[1] |->
              Values(rotate(Args(Point(k)), Args(rin.center), Const(rin.a), rin.mode))]
  /\ rpc' = "each"
  /\ UNCHANGED <<rin, rb, r2, rs>>
  /\ UNCHANGED tvars

\* r2[k] = rotate(re[k], center, b, mode)
RotateTwice ==
  /\ rpc = "each"
  /\ r2' = [k \in DOMAIN re |->
              Values(rotate(Args(re[k]), Args(rin.center), Const(rin.b), rin.mode))]
  /\ rpc' = "twice"
  /\ UNCHANGED <<rin, rb, re, rs>>
  /\ UNCHANGED tvars

\* rs[k] = rotate((xs[k], zs[k]), center, a + b, mode)
RotateSum ==
  /\ rpc = "twice"
  /\ rs' = [k \in DOMAIN rin.coords[1] |->
              Values(rotate(Args(Point(k)), Args(rin.center),
                            add(Const(rin.a), Const(rin.b)), rin.mode))]
  /\ rpc' = "done"
  /\ UNCHANGED <<rin, rb, re, r2>>
  /\ UNCHANGED tvars

NextRotate == RotateBatch \/ RotateEach \/ RotateTwice \/ RotateSum

SpecRotate == InitRotate /\ [][NextRotate]_vars

\* ------------------------------------------------------------------------
\* The claims about plot_flight_path, checked under Spec
\* ------------------------------------------------------------------------
\* C1: for positive zt and z0 and N >= 2 the tracer holds exactly N points
\* (x and z are indexed 0..N-1), and point 0 is (0, z0) exactly, from
\* initialization to the end of the marching loop.
C1_PointsAndStart ==
  (pc \in {"loop", "done"} /\ N >= 2 /\ FLess(Zero(0), zt) /\ FLess(Zero(0), z0))
    => /\ DOMAIN x = 0..(N - 1)
       /\ DOMAIN z = 0..(N - 1)
       /\ x[0] = Zero(0)
       /\ z[0] = z0

\* the loop has finished on a path of MaxN points from positive inputs
C1_Witness ==
  /\ pc = "done" /\ N = MaxN /\ Len(log) = N - 1
  /\ FLess(Zero(0), zt) /\ FLess(Zero(0), z0)
  /\ IsFinite(x[N - 1]) /\ ~FEq(x[N - 1], x[0])

\* C2: for N >= 2 and any input, degenerate ones included, the tracer never
\* raises, and when it has ended it has made all N - 1 marching steps and
\* holds N points.
C2_NeverRaises ==
  N >= 2 =>
    /\ pc # "raised"
    /\ err = "none"
    /\ pc = "done" =>
         /\ i = N
         /\ Len(log) = N - 1
         /\ DOMAIN x = 0..(N - 1)
         /\ DOMAIN z = 0..(N - 1)

\* a path from the depth z0 = 0 has ended, with NaN in its last point
C2_Witness ==
  /\ pc = "done" /\ N = MaxN /\ IsZero(z0) /\ Len(log) = N - 1
  /\ IsNaN(x[N - 1]) /\ IsNaN(z[N - 1])

\* C3 as stated: whatever N and zt are, the tracer ends with no error.
C3_NoErrorForAnyN == pc # "raised" /\ err = "none"

\* C3, amended: the tracer ends with no error for every N >= 1, whatever zt
\* is; N = 0 ends in IndexError and a negative N in ValueError.
C3_ErrorOnlyWithoutPoints ==
  /\ N >= 1 => (pc # "raised" /\ err = "none")
  /\ (N = 0 /\ pc # "call") => (pc = "raised" /\ err = "IndexError")
  /\ (N < 0 /\ pc # "call") => (pc = "raised" /\ err = "ValueError")

\* the call with N = 1 and zt = 0 has ended without an error
C3_Witness == pc = "done" /\ N = 1 /\ IsZero(zt) /\ err = "none"

\* C4 as stated: for zt = 1, z0 = 1, theta0 = 0, N = 2 the constant C is
\* 2/3 (the float64 nearest to it).
C4_TrimConstantExact ==
  (pc \in {"loop", "done"} /\ N = 2 /\ zt = FromInt(1) /\ z0 = FromInt(1)
     /\ theta0 = FromInt(0))
    => C = FDiv(FromInt(2), FromInt(3))

\* C4, amended: for zt = 1, z0 = 1, theta0 = 0, N = 2 the constant C is
\* within 2^-52 of 2/3, and point 1 is finite and not point 0.
C4_TrimConstantClose ==
  (pc \in {"loop", "done"} /\ N = 2 /\ zt = FromInt(1) /\ z0 = FromInt(1)
     /\ theta0 = FromInt(0))
    => /\ FLess(FAbs(FSub(C, FDiv(FromInt(2), FromInt(3)))), Dyadic(1, -52))
       /\ pc = "done" =>
            /\ IsFinite(x[1]) /\ IsFinite(z[1])
            /\ ~(FEq(x[1], x[0]) /\ FEq(z[1], z[0]))

\* the trim path has ended, with C = 1 - 1/3 one unit in the last place
\* above 2/3
C4_Witness ==
  /\ pc = "done" /\ N = 2 /\ zt = FromInt(1) /\ z0 = FromInt(1) /\ theta0 = FromInt(0)
  /\ C = FSub(FromInt(1), Third.v)
  /\ Len(log) = 1

\* C8: C is assigned once, at initialization, to
\* (cos(theta0) - 1/3 * z0 / zt) * (z0 / zt)**0.5 with theta0 in radians; it
\* has that value in every state of the loop and at the end, and every call
\* of radius_of_curvature was given that C and zt.
C8_ConstantOnce ==
  pc \in {"loop", "done"} =>
    /\ nC = 1
    /\ C = IntegrationConstant(Const(z0), Const(zt), radians(Const(theta0))).v
    /\ \A k \in 1..Len(log) : log[k].curv.C = C /\ log[k].curv.zt = zt

\* all steps of a longest path are done and C was assigned once
C8_Witness == pc = "done" /\ N = MaxN /\ Len(log) = MaxN - 1 /\ nC = 1 /\ IsFinite(C)

\* C9: a pass of the loop is pass i = number of passes made so far + 1; it
\* queries the curvature at the depth of point i - 1 and rotates point i - 1,
\* from the heading it found; it adds the rotation angle to the heading and
\* assigns point i only: every other point is kept, and the points after i
\* are still (0, 0).
C9_StepFrame ==
  [][ (pc = "loop" /\ i' # i) =>
        /\ i = Len(log) + 1
        /\ i' = i + 1
        /\ Len(log') = Len(log) + 1
        /\ SubSeq(log', 1, Len(log)) = log
        /\ log'[i].i = i
        /\ log'[i].curv.z = z[i - 1]
        /\ log'[i].rot.coords = <<x[i - 1], z[i - 1]>>
        /\ log'[i].heading = theta
        /\ theta' = FAdd(theta, log'[i].rot.angle)
        /\ DOMAIN x' = DOMAIN x /\ DOMAIN z' = DOMAIN z
        /\ \A j \in DOMAIN x \ {i} : x'[j] = x[j] /\ z'[j] = z[j]
        /\ \A j \in (i + 1)..(N - 1) : x'[j] = Zero(0) /\ z'[j] = Zero(0) ]_vars

\* a longest path is complete: the passes 1 .. MaxN - 1 in order, on finite
\* points that differ
C9_Witness ==
  /\ pc = "done" /\ N = MaxN /\ i = N
  /\ \A k \in 1..(N - 1) : log[k].i = k /\ IsFinite(x[k]) /\ x[k] # x[k - 1]

\* C10 as stated: when the radius of pass k is NaN, infinite or zero, the
\* points k and later and the heading are not finite.
C10_AbsorbingWithHeading ==
  \A k \in 1..Len(log) :
    (~IsFinite(log[k].R) \/ IsZero(log[k].R)) =>
      /\ \A j \in k..Len(log) : ~IsFinite(x[j]) /\ ~IsFinite(z[j])
      /\ ~IsFinite(theta)

\* C10, amended: when the radius of pass k is NaN, infinite or zero, the
\* points k and later are not finite; the heading is not finite from pass k
\* on when that radius is NaN or zero, and from pass k + 1 on when it is
\* infinite.
C10_Absorbing ==
  \A k \in 1..Len(log) :
    (~IsFinite(log[k].R) \/ IsZero(log[k].R)) =>
      /\ \A j \in k..Len(log) : ~IsFinite(x[j]) /\ ~IsFinite(z[j])
      /\ (~IsInf(log[k].R) \/ Len(log) > k) => ~IsFinite(theta)

\* the only pass had an infinite radius: point 1 is NaN, the heading finite
C10_Witness ==
  /\ pc = "done" /\ N = 2 /\ Len(log) = 1 /\ IsInf(log[1].R)
  /\ IsNaN(x[1]) /\ IsNaN(z[1]) /\ IsFinite(theta)

\* ------------------------------------------------------------------------
\* The claims about rotate, checked under SpecRotate
\* ------------------------------------------------------------------------
\* C5 as stated: rotate by the angle 0 returns every point and every batch
\* unchanged, for every center and both units.
C5_ZeroAngleIdentity ==
  (rpc \in {"each", "twice", "done"} /\ IsZero(rin.a)) =>
    \A k \in DOMAIN re :
      /\ FEq(re[k][1], Point(k)[1]) /\ FEq(re[k][2], Point(k)[2])
      /\ FEq(rb[1][k], Point(k)[1]) /\ FEq(rb[2][k], Point(k)[2])

\* C5, amended: for a point and a center of magnitudes below 2^1023, rotate
\* by the angle 0 returns each coordinate to within 2^-52 (|x| + |xc|),
\* resp. 2^-52 (|z| + |zc|), and unchanged when the center is (0, 0); on a
\* point and on a batch, in both units.
C5_ZeroAngleRounded ==
  (rpc \in {"each", "twice", "done"} /\ IsZero(rin.a)) =>
    \A k \in DOMAIN re :
      (\A v \in {Point(k)[1], Point(k)[2], rin.center[1], rin.center[2]} :
         FLess(FAbs(v), Dyadic(1, 1023))) =>
        \A c \in 1..2 : \A out \in {re[k][c], rb[c][k]} :
          /\ ~FLess(FMul(Dyadic(1, -52), FAdd(FAbs(Point(k)[c]), FAbs(rin.center[c]))),
                    FAbs(FSub(out, Point(k)[c])))
          /\ IsFinite(out)
          /\ IsZero(rin.center[c]) => FEq(out, Point(k)[c])

\* the point (1, 0) rotated by 0 about (2^54, 0) came back as (0, 0)
C5_Witness ==
  /\ rpc = "done" /\ IsZero(rin.a) /\ rin.center[1] = Far
  /\ 0 \in DOMAIN re /\ Point(0)[1] = FromInt(1)
  /\ IsZero(re[0][1]) /\ IsZero(rb[1][0])

\* C6 as stated: rotating by a and then by b gives the same point as
\* rotating by a + b, for every point, center and angles.
C6_AdditiveExact ==
  rpc = "done" =>
    \A k \in DOMAIN rs : FEq(r2[k][1], rs[k][1]) /\ FEq(r2[k][2], rs[k][2])

\* C6, amended: for a point and a center of magnitudes below 2^1000 and
\* angles a, b of magnitudes below 256 (in either unit), rotating by a and
\* then by b gives the point of rotating by a + b to within
\* 2^-40 (|x| + |z| + |xc| + |zc|) + 2^-1070 in each coordinate.
C6_AdditiveRounded ==
  rpc = "done" =>
    \A k \in DOMAIN rs :
      (/\ \A v \in {Point(k)[1], Point(k)[2], rin.center[1], rin.center[2]} :
            FLess(FAbs(v), Dyadic(1, 1000))
       /\ \A v \in {rin.a, rin.b} : FLess(FAbs(v), FromInt(256))) =>
        \A c \in 1..2 :
          /\ IsFinite(r2[k][c]) /\ IsFinite(rs[k][c])
          /\ ~FLess(FAdd(FMul(Dyadic(1, -40),
                              FAdd(FAdd(FAbs(Point(k)[1]), FAbs(Point(k)[2])),
                                   FAdd(FAbs(rin.center[1]), FAbs(rin.center[2])))),
                         Dyadic(1, -1070)),
                    FAbs(FSub(r2[k][c], rs[k][c])))

\* two rotations of a finite point are done and differ from the single one
C6_Witness ==
  /\ rpc = "done" /\ ~IsZero(rin.a) /\ 0 \in DOMAIN rs
  /\ IsFinite(r2[0][1]) /\ IsFinite(rs[0][1]) /\ r2[0] # rs[0]
  /\ ~IsZero(r2[0][1])

\* C7: the batch result has the length of the batch, and its element k is
\* the result of rotate on point k alone (the same float64, NaN included),
\* for every center, angle and unit.
C7_BatchIsElementwise ==
  rpc \in {"each", "twice", "done"} =>
    /\ DOMAIN rb[1] = DOMAIN rin.coords[1]
    /\ DOMAIN rb[2] = DOMAIN rin.coords[2]
    /\ DOMAIN re = DOMAIN rin.coords[1]
    /\ \A k \in DOMAIN re : rb[1][k] = re[k][1] /\ rb[2][k] = re[k][2]

\* a batch of three points was rotated by a nonzero angle in degrees, as a
\* batch and point by point
C7_Witness ==
  /\ rpc = "done" /\ rin.mode = "degrees" /\ ~IsZero(rin.a)
  /\ DOMAIN re = 0..2 /\ DOMAIN rb[1] = 0..2
  /\ IsFinite(re[1][1]) /\ re[1][1] # Point(1)[1]
====
